---- MODULE Spec2Model ----
(***************************************************************************)
(* A model of cdblib.py: D. J. Bernstein's Constant Database, its Writer    *)
(* (put / finalize over a seekable sink) and its Reader (index parse,       *)
(* bucket probe, record iteration), for both pair widths.                   *)
(*                                                                          *)
(* Python integers that may not fit a machine word (hash values) are kept   *)
(* as their little-endian base-256 digit sequences without trailing zero    *)
(* digits ("numbers"); offsets, lengths and slot counts, which stay small,  *)
(* are converted to and from TLA+ integers with ToInt and Num.                *)
(***************************************************************************)
EXTENDS Integers, Sequences, FiniteSets, TLC

VARIABLES
    hashfn,      \* the hashfn argument shared by the writer and the reader
    pair_size,   \* the class attribute pair_size of the writer/reader pair
    sink,        \* the file-like object: [data |-> bytes, pos |-> offset]
    fp,          \* Writer.fp: "sink" while it references the sink, else "None"
    unordered,   \* Writer._unordered: 256 lists of (h, pos)
    puts,        \* history: the (key, value) of every put call that returned
    finalized,   \* history: a finalize call has returned
    reader,      \* the Reader object, or NoReader
    op,          \* the last call made, with its arguments
    out          \* what the last call returned, yielded or raised

vars == <<hashfn, pair_size, sink, fp, unordered, puts, finalized, reader, op, out>>

----------------------------------------------------------------------------
(* Bounds of the model. *)

\* the largest number of put calls on one writer
MaxPuts == 2
\* the longest string hashed by the hash-function specification
MaxHashLen == 3
\* the largest value of the marked byte of a raw byte sequence given to a reader
MaxFill == 3

----------------------------------------------------------------------------
(* Numbers as base-256 digit sequences. *)

Min(a, b) == IF a < b THEN a ELSE b

RECURSIVE Normalize(_)
\* drop the most significant zero digits
Normalize(d) ==
    IF d = <<>> THEN <<>>
    ELSE IF d[Len(d)] = 0 THEN Normalize(SubSeq(d, 1, Len(d) - 1))
    ELSE d

RECURSIVE Num(_)
\* the digits of a small non-negative integer
Num(n) == IF n = 0 THEN <<>> ELSE <<n % 256>> \o Num(n \div 256)

RECURSIVE ToInt(_)
\* the small integer a digit sequence stands for
ToInt(d) == IF d = <<>> THEN 0 ELSE d[1] + 256 * ToInt(Tail(d))

RECURSIVE AddC(_, _, _)
\* a + b + carry on digit sequences
AddC(a, b, c) ==
    IF a = <<>> /\ b = <<>> THEN (IF c = 0 THEN <<>> ELSE <<c>>)
    ELSE LET x == IF a = <<>> THEN 0 ELSE a[1]
             y == IF b = <<>> THEN 0 ELSE b[1]
             s == x + y + c
         IN  <<s % 256>> \o AddC(IF a = <<>> THEN <<>> ELSE Tail(a),
                                 IF b = <<>> THEN <<>> ELSE Tail(b),
                                 s \div 256)

RECURSIVE ShlC(_, _, _)
\* (h << k) for k < 8, with the digits carried upward
ShlC(h, k, c) ==
    IF h = <<>> THEN (IF c = 0 THEN <<>> ELSE <<c>>)
    ELSE LET s == h[1] * (2 ^ k) + c
         IN  <<s % 256>> \o ShlC(Tail(h), k, s \div 256)

RECURSIVE XorInt(_, _)
\* bitwise exclusive or of two small non-negative integers
XorInt(a, b) ==
    IF a = 0 THEN b
    ELSE IF b = 0 THEN a
    ELSE 2 * XorInt(a \div 2, b \div 2) + ((a + b) % 2)

\* h ^ c for a number h and a byte c
XorByte(h, c) ==
    IF h = <<>> THEN Num(c)
    ELSE Normalize(<<XorInt(h[1], c)>> \o Tail(h))

\* h & 0xffffffff
Mask32(h) == Normalize(SubSeq(h, 1, Min(4, Len(h))))

\* the second byte of the hash in place of the first: (h >> 8) & 0xff
SecondByte(h) == IF Len(h) < 2 THEN 0 ELSE h[2]

\* h & 0xff
LowByte(h) == IF h = <<>> THEN 0 ELSE h[1]

\* h >> 8, for h below 2^32
Shr8(h) == ToInt(IF h = <<>> THEN <<>> ELSE Tail(h))

----------------------------------------------------------------------------
(* The hash functions. *)

RECURSIVE djb_loop(_, _)
djb_loop(h, s) ==
    IF s = <<>> THEN h
    ELSE djb_loop(Mask32(XorByte(AddC(ShlC(h, 5, 0), h, 0), s[1])), Tail(s))

RECURSIVE djb_add_loop(_, _)
djb_add_loop(h, s) ==
    IF s = <<>> THEN h
    ELSE djb_add_loop(Mask32(AddC(AddC(ShlC(h, 5, 0), h, 0), Num(s[1]), 0)), Tail(s))

\* the additive variant of the hash: h * 33 + c in place of (h * 33) ^ c
py_djb_hash_add(s) == djb_add_loop(Num(5381), s)

\* py_djb_hash(s): h = 5381, then h = (((h << 5) + h) ^ ord(c)) & 0xffffffff
py_djb_hash(s) == djb_loop(Num(5381), s)

\* the hashfn arguments tried: the default and three caller-supplied functions
\*   const_hash = lambda s: 0x305
\*   len_hash   = lambda s: len(s) * 0x400
\*   sum_hash   = lambda s: (sum(map(ord, s)) << 25) | 0xff
HashFns == {"djb_hash", "const_hash", "len_hash", "sum_hash"}

RECURSIVE SumBytes(_)
SumBytes(s) == IF s = <<>> THEN 0 ELSE s[1] + SumBytes(Tail(s))

\* self.hashfn(key)
Hash(fn, key) ==
    CASE fn = "djb_hash"   -> py_djb_hash(key)
      [] fn = "const_hash" -> Num(773)
      [] fn = "len_hash"   -> Num(Len(key) * 1024)
      [] fn = "sum_hash"   ->
            Normalize(<<255, 0, 0>> \o
                      <<(2 * SumBytes(key)) % 256, (2 * SumBytes(key)) \div 256>>)

----------------------------------------------------------------------------
(* Struct('<LL') / Struct('<QQ') and Python slices. *)

NumBuckets == 256

Zeros(n) == [i \in 1..n |-> 0]

\* data[i:j] of a Python string
Slice(data, i, j) == SubSeq(data, i + 1, Min(j, Len(data)))

\* xrange(a, b, step) as the sequence of its values
xrange(a, b, step) ==
    IF b <= a THEN <<>>
    ELSE [k \in 1..((b - a + step - 1) \div step) |-> a + (k - 1) * step]

\* one unsigned little-endian field of w bytes
pack_field(w, x) == [i \in 1..w |-> IF i <= Len(x) THEN x[i] ELSE 0]

\* a field written most significant byte first
pack_field_be(w, x) == [i \in 1..w |-> IF w + 1 - i <= Len(x) THEN x[w + 1 - i] ELSE 0]

\* a pair written big-endian
write_pair_be(P, a, b) == pack_field_be(P \div 2, a) \o pack_field_be(P \div 2, b)

\* write_pair(a, b) of a class whose pair_size is P; a and b are numbers
write_pair(P, a, b) == pack_field(P \div 2, a) \o pack_field(P \div 2, b)

StructError == <<"struct.error">>

\* read_pair(s) of a class whose pair_size is P: the two numbers, or
\* struct.error when s is not exactly P bytes long
read_pair(P, s) ==
    IF Len(s) # P THEN StructError
    ELSE <<Normalize(SubSeq(s, 1, P \div 2)), Normalize(SubSeq(s, P \div 2 + 1, P))>>

----------------------------------------------------------------------------
(* The sink: a seekable file-like object. *)

\* fp.write(b)
Write(s, b) ==
    LET n == Len(s.data)
        e == s.pos + Len(b)
    IN  IF s.pos = n THEN [data |-> s.data \o b, pos |-> e]
        ELSE IF s.pos > n THEN [data |-> s.data \o Zeros(s.pos - n) \o b, pos |-> e]
        ELSE [data |-> SubSeq(s.data, 1, s.pos) \o b \o SubSeq(s.data, e + 1, n),
              pos |-> e]

\* fp.seek(p)
Seek(s, p) == [s EXCEPT !.pos = p]

----------------------------------------------------------------------------
(* Writer. *)

\* the inputs of put: keys "", "a", "ab" and values "", "v"
Keys == {<<>>, <<97>>, <<97, 98>>}
Values == {<<>>, <<118>>}

\* the class attribute pair_size of Writer/Reader (8) and Writer64/Reader64 (16)
PairSizes == {8, 16}

\* a constructor that writes no header placeholder
Writer_sink_bare(P) == [data |-> <<>>, pos |-> 0]

\* Writer.__init__: the header placeholder and the empty bucket lists
Writer_sink(P) == Write([data |-> <<>>, pos |-> 0], Zeros(NumBuckets * P))
Writer_unordered == [i \in 0..(NumBuckets - 1) |-> <<>>]

\* the body of put on a live writer: the sink and the bucket lists after it
put(P, fn, s, unord, key, value) ==
    LET pos == s.pos
        s1  == Write(s, write_pair(P, Num(Len(key)), Num(Len(value))))
        s2  == Write(s1, key)
        s3  == Write(s2, value)
        h   == Mask32(Hash(fn, key))
    IN  [sink |-> s3,
         unordered |-> [unord EXCEPT ![LowByte(h)] = Append(@, <<h, pos>>)]]

\* the slot (0, 0)
EmptySlot == <<<<>>, 0>>

\* finalize's test of a slot it may store into: not ordered[i][0]
slot_free(slot) == slot[1] = <<>>

\* a placement whose scan ends at the end of the slot list: xrange(where, length)
place_nowrap(ordered, pair) ==
    LET length == Len(ordered)
        where  == Shr8(pair[1]) % length
        scan   == xrange(where, length, 1)
        free   == {k \in 1..Len(scan) : ordered[scan[k] + 1][1] = <<>>}
    IN  IF free = {} THEN ordered
        ELSE LET k == CHOOSE x \in free : \A y \in free : x <= y
             IN  [ordered EXCEPT ![scan[k] + 1] = pair]

\* the placement of one (h, pos) pair into the slot list of its bucket;
\* slot i of the code is ordered[i + 1] here
place(ordered, pair) ==
    LET length == Len(ordered)
        where  == Shr8(pair[1]) % length
        scan   == xrange(where, length, 1) \o xrange(0, where, 1)
        free   == {k \in 1..Len(scan) : slot_free(ordered[scan[k] + 1])}
    IN  IF free = {} THEN ordered
        ELSE LET k == CHOOSE x \in free : \A y \in free : x <= y
             IN  [ordered EXCEPT ![scan[k] + 1] = pair]

RECURSIVE place_all(_, _)
place_all(ordered, tbl) ==
    IF tbl = <<>> THEN ordered
    ELSE place_all(place(ordered, tbl[1]), Tail(tbl))

\* a slot list with one slot per record instead of two
ordered_of_single(tbl) == place_all([i \in 1..Len(tbl) |-> EmptySlot], tbl)

\* the slot list finalize builds for one bucket list
ordered_of(tbl) == place_all([i \in 1..(Len(tbl) * 2) |-> EmptySlot], tbl)

RECURSIVE write_pairs(_, _, _)
\* for pair in pairs: fp.write(write_pair(*pair)), the second field an integer
\* (the list is halved to keep the evaluation shallow)
write_pairs(P, s, pairs) ==
    IF pairs = <<>> THEN s
    ELSE IF Len(pairs) = 1
    THEN Write(s, write_pair(P, pairs[1][1], Num(pairs[1][2])))
    ELSE LET mid  == Len(pairs) \div 2
             left == write_pairs(P, s, SubSeq(pairs, 1, mid))
         IN  \* the test is always true: it has the first half written
             \* before the second half is entered
             IF left.pos >= 0
             THEN write_pairs(P, left, SubSeq(pairs, mid + 1, Len(pairs)))
             ELSE left

\* an index that records (0, 0) for a bucket without records
index_entry_zero(pos, length) == IF length = 0 THEN <<<<>>, 0>> ELSE <<Num(pos), length>>

\* an index that records the number of records in place of the number of slots
index_entry_records(pos, length) == <<Num(pos), length \div 2>>

\* the index entry finalize records for a bucket whose table starts at pos
index_entry(pos, length) == <<Num(pos), length>>

RECURSIVE finalize_tables(_, _, _, _, _)
\* the loop over self._unordered for the buckets lo .. hi - 1, entered with
\* acc = [sink, index]: the sink and the index after it (the range is halved
\* to keep the evaluation shallow)
finalize_tables(P, acc, unord, lo, hi) ==
    IF hi - lo = 1
    THEN LET ordered == ordered_of(unord[lo])
         IN  [sink  |-> write_pairs(P, acc.sink, ordered),
              index |-> Append(acc.index, index_entry(acc.sink.pos, Len(ordered)))]
    ELSE LET mid  == (lo + hi) \div 2
             left == finalize_tables(P, acc, unord, lo, mid)
         IN  \* the test is always true: it has the first half evaluated
             \* before the second half is entered
             IF Len(left.index) >= mid - lo
             THEN finalize_tables(P, left, unord, mid, hi)
             ELSE left

\* a finalize that keeps its reference to the sink
fp_kept == "sink"

\* self.fp = None, which prevents a second finalize
fp_after_finalize == "None"

\* the body of finalize on a live writer: the sink after it
finalize(P, s, unord) ==
    LET t == finalize_tables(P, [sink |-> s, index |-> <<>>], unord, 0, NumBuckets)
    IN  write_pairs(P, Seek(t.sink, 0), t.index)

----------------------------------------------------------------------------
(* Reader. *)

\* Python values: None and a str
PyNone == [kind |-> "None", val |-> <<>>]
Str(v) == [kind |-> "str", val |-> v]

NoReader == [kind |-> "none"]

RECURSIVE SumHalves(_, _, _)
\* sum(p[1] >> 1 for p in index) over the entries lo .. hi - 1 (the range is
\* halved to keep the evaluation shallow)
SumHalves(index, lo, hi) ==
    IF hi - lo = 1 THEN ToInt(index[lo][2]) \div 2
    ELSE LET mid == (lo + hi) \div 2
         IN  SumHalves(index, lo, mid) + SumHalves(index, mid, hi)

\* the length below which Reader.__init__ refuses its data
TooSmall == 2048

\* the greatest table offset in place of the least
max_offset(index) ==
    LET offs == {ToInt(index[i][1]) : i \in 0..(NumBuckets - 1)}
    IN  CHOOSE m \in offs : \A x \in offs : m >= x

\* min(p[0] for p in index)
min_offset(index) ==
    LET offs == {ToInt(index[i][1]) : i \in 0..(NumBuckets - 1)}
    IN  CHOOSE m \in offs : \A x \in offs : m <= x

\* the reader object __init__ leaves once the index is parsed
Reader_parsed(P, fn, index) ==
    IF \E i \in 0..(NumBuckets - 1) : index[i] = StructError
    THEN [kind |-> "raise", val |-> "struct.error"]
    ELSE [kind |-> "Reader",
          pair_size |-> P,
          data |-> "sink.data",
          hashfn |-> fn,
          index |-> index,
          table_start |-> min_offset(index),
          length |-> SumHalves(index, 0, NumBuckets)]

\* Reader.__init__ of the class whose pair_size is P: the object, or what it raises
Reader_init(P, data, fn) ==
    IF Len(data) < TooSmall THEN [kind |-> "raise", val |-> "IOError"]
    ELSE Reader_parsed(P, fn, [i \in 0..(NumBuckets - 1) |->
                                  read_pair(P, Slice(data, i * P, i * P + P))])

RECURSIVE iter_from(_, _, _)
\* the loop of iteritems from pos on: the items yielded, then how it ended
iter_from(r, pos, items) ==
    IF ~(pos < r.table_start) THEN [items |-> items, raised |-> "StopIteration"]
    ELSE LET P   == r.pair_size
             hdr == read_pair(P, Slice(r.data, pos, pos + P))
         IN  IF hdr = StructError THEN [items |-> items, raised |-> "struct.error"]
             ELSE LET klen == ToInt(hdr[1])
                      dlen == ToInt(hdr[2])
                      kpos == pos + P
                      dpos == kpos + klen
                  IN  iter_from(r, dpos + dlen,
                                Append(items, <<Slice(r.data, kpos, kpos + klen),
                                                Slice(r.data, dpos, dpos + dlen)>>))

\* an iteration that starts after 256 pairs of 8 bytes, whatever the pair size
iteritems_2048(r) == iter_from(r, 2048, <<>>)

\* list(reader.iteritems())
iteritems(r) == iter_from(r, r.pair_size * NumBuckets, <<>>)

\* a comparison that takes the hash match for a key match
key_matches_any(data, kpos, klen, key) == TRUE

\* gets' comparison of the stored key: self.data[rec_pos:rec_pos+klen] == key
key_matches(data, kpos, klen, key) == Slice(data, kpos, kpos + klen) = key

\* a probe that no slot ends
slot_never_ends(rec_h) == FALSE

\* gets' test that ends the probe: not rec_h
slot_ends_probe(rec_h) == rec_h = <<>>

RECURSIVE probe(_, _, _, _, _, _, _)
\* the for loop of gets over the slot positions left: the values yielded and
\* the slot positions read, up to the first `limit` values
probe(r, key, h, positions, limit, vals, reads) ==
    IF Len(vals) = limit
    THEN [vals |-> vals, reads |-> reads, raised |-> "suspended"]
    ELSE IF positions = <<>>
    THEN [vals |-> vals, reads |-> reads, raised |-> "StopIteration"]
    ELSE LET P    == r.pair_size
             pos  == positions[1]
             slot == read_pair(P, Slice(r.data, pos, pos + P))
             rds  == Append(reads, pos)
         IN  IF slot = StructError
             THEN [vals |-> vals, reads |-> rds, raised |-> "struct.error"]
             ELSE IF slot_ends_probe(slot[1])
             THEN [vals |-> vals, reads |-> rds, raised |-> "StopIteration"]
             ELSE IF slot[1] # h
             THEN probe(r, key, h, Tail(positions), limit, vals, rds)
             ELSE LET rec_pos == ToInt(slot[2])
                      hdr     == read_pair(P, Slice(r.data, rec_pos, rec_pos + P))
                  IN  IF hdr = StructError
                      THEN [vals |-> vals, reads |-> rds, raised |-> "struct.error"]
                      ELSE LET klen == ToInt(hdr[1])
                               dlen == ToInt(hdr[2])
                               kpos == rec_pos + P
                               dpos == kpos + klen
                           IN  IF key_matches(r.data, kpos, klen, key)
                               THEN probe(r, key, h, Tail(positions), limit,
                                          Append(vals, Slice(r.data, dpos, dpos + dlen)),
                                          rds)
                               ELSE probe(r, key, h, Tail(positions), limit, vals, rds)

\* a probe that stops at the end of the table instead of wrapping to its start
probe_positions_nowrap(r, h) ==
    LET P      == r.pair_size
        start  == ToInt(r.index[LowByte(h)][1])
        nslots == ToInt(r.index[LowByte(h)][2])
    IN  IF nslots = 0 THEN <<>>
        ELSE xrange(start + ((Shr8(h) % nslots) * P), start + (nslots * P), P)

\* the slot positions gets visits for hash h, in order
probe_positions(r, h) ==
    LET P      == r.pair_size
        start  == ToInt(r.index[LowByte(h)][1])
        nslots == ToInt(r.index[LowByte(h)][2])
    IN  IF nslots = 0 THEN <<>>
        ELSE LET end      == start + (nslots * P)
                 slot_off == start + ((Shr8(h) % nslots) * P)
             IN  xrange(slot_off, end, P) \o xrange(start, slot_off, P)

RECURSIVE values_of(_, _)
\* the values of the items whose key is `key`
values_of(items, key) ==
    IF items = <<>> THEN <<>>
    ELSE (IF items[1][1] = key THEN <<items[1][2]>> ELSE <<>>)
             \o values_of(Tail(items), key)

\* a lookup that walks the record region instead of probing the slot table
gets_by_scan(r, key, limit) ==
    LET vs == values_of(iteritems(r).items, key)
    IN  [vals   |-> IF limit >= 0 /\ Len(vs) > limit THEN SubSeq(vs, 1, limit) ELSE vs,
         reads  |-> <<>>,
         raised |-> "StopIteration"]

\* a generator that runs the probe to its end before it hands out a value
gets_upto_eager(r, key, limit) ==
    LET h == Mask32(Hash(r.hashfn, key))
        g == probe(r, key, h, probe_positions(r, h), -1, <<>>, <<>>)
    IN  IF limit >= 0 /\ Len(g.vals) >= limit
        THEN [vals |-> SubSeq(g.vals, 1, limit), reads |-> g.reads, raised |-> "suspended"]
        ELSE g

\* the generator gets(key) pulled until it has yielded `limit` values or ended
\* (a negative limit: pulled until it ends)
gets_upto(r, key, limit) ==
    LET h == Mask32(Hash(r.hashfn, key))
    IN  probe(r, key, h, probe_positions(r, h), limit, <<>>, <<>>)

\* list(reader.gets(key)): the generator run to its end
gets(r, key) == gets_upto(r, key, -1)

\* reader.get(key, default): chain(self.gets(key), (default,)).next()
get(r, key, default) ==
    LET g == gets_upto(r, key, 1)
    IN  IF g.raised = "struct.error" /\ g.vals = <<>>
        THEN [kind |-> "raise", val |-> "struct.error"]
        ELSE IF g.vals # <<>> THEN Str(g.vals[1])
        ELSE default

\* a has_key that tests the truth of the value: bool(self.get(key))
has_key_truthy(r, key) ==
    LET value == get(r, key, PyNone)
    IN  IF value.kind = "raise" THEN value
        ELSE [kind |-> "bool", val |-> (value.kind # "None" /\ value.val # <<>>)]

\* reader.has_key(key): self.get(key) is not None
has_key(r, key) ==
    LET value == get(r, key, PyNone)
    IN  IF value.kind = "raise" THEN value
        ELSE [kind |-> "bool", val |-> (value.kind # "None")]

\* reader[key]: KeyError when self.get(key) is None
getitem(r, key) ==
    LET value == get(r, key, PyNone)
    IN  IF value.kind = "None" THEN [kind |-> "raise", val |-> "KeyError"]
        ELSE value

----------------------------------------------------------------------------
(* The state machine: one writer over one sink, then one reader over the    *)
(* sink's bytes.  The reader is given a byte sequence that no longer        *)
(* changes, so the writer's calls come before the reader is opened.         *)

Defaults == {PyNone, Str(<<100>>)}

\* self.data is a reference to the byte sequence the reader was given, not a
\* copy of it: the reader object with that reference followed
Self == [reader EXCEPT !.data = sink.data]

\* A query returns what the reader object and the bytes determine and changes
\* neither, so the states after a query are the same whether it follows the
\* constructor or another query: queries are taken from the state the
\* constructor left, which reaches every state of the reader at a fraction
\* of the transitions.
Queryable == reader # NoReader /\ op[1] = "Reader"

Call(name, key, arg) == <<name, key, arg>>
Returned(kind, val) == [kind |-> kind, val |-> val]
Raised(exc) == [kind |-> "raise", val |-> exc]

\* a fresh Writer (P = 8) or Writer64 (P = 16) over an empty sink
NewWriter(P) ==
    /\ hashfn \in HashFns
    /\ pair_size = P
    /\ sink = Writer_sink(pair_size)
    /\ fp = "sink"
    /\ unordered = Writer_unordered
    /\ puts = <<>>
    /\ finalized = FALSE
    /\ reader = NoReader
    /\ op = Call("Writer", <<>>, PyNone)
    /\ out = PyNone

Init == NewWriter(8)

\* writer.put(key, value)
Put(key, value) ==
    /\ reader = NoReader
    /\ op' = Call("put", <<>>, PyNone)
    /\ IF fp = "None"
       THEN /\ out' = Raised("AttributeError")
            /\ UNCHANGED <<hashfn, pair_size, sink, fp, unordered, puts, finalized, reader>>
       ELSE /\ Len(puts) < MaxPuts
            /\ LET w == put(pair_size, hashfn, sink, unordered, key, value)
               IN  /\ sink' = w.sink
                   /\ unordered' = w.unordered
            /\ puts' = Append(puts, <<key, value>>)
            /\ out' = PyNone
            /\ UNCHANGED <<hashfn, pair_size, fp, finalized, reader>>

\* writer.finalize()
Finalize ==
    /\ reader = NoReader
    /\ op' = Call("finalize", <<>>, PyNone)
    /\ IF fp = "None"
       THEN /\ out' = Raised("AttributeError")
            /\ UNCHANGED <<hashfn, pair_size, sink, fp, unordered, puts, finalized, reader>>
       ELSE /\ sink' = finalize(pair_size, sink, unordered)
            /\ fp' = fp_after_finalize
            /\ finalized' = TRUE
            /\ out' = PyNone
            /\ UNCHANGED <<hashfn, pair_size, unordered, puts, reader>>

\* what a constructor call leaves: the object r, or the exception r
Constructed(r) ==
    IF r.kind = "Reader"
    THEN reader' = r /\ out' = Returned("Reader", <<>>)
    ELSE reader' = reader /\ out' = r

\* Reader(data, hashfn) (P = 8) or Reader64(data, hashfn) (P = 16)
OpenWith(P) ==
    /\ reader = NoReader
    /\ op' = Call("Reader", <<>>, Returned("int", P))
    /\ Constructed(Reader_init(P, sink.data, hashfn))
    /\ UNCHANGED <<hashfn, pair_size, sink, fp, unordered, puts, finalized>>

\* the reader class that matches the writer's, over the sink's bytes
Open == OpenWith(pair_size)

\* len(reader)
LenCall ==
    /\ Queryable
    /\ op' = Call("len", <<>>, PyNone)
    /\ out' = Returned("int", Self.length)
    /\ UNCHANGED <<hashfn, pair_size, sink, fp, unordered, puts, finalized, reader>>

\* list(reader.iteritems())
IterItems ==
    /\ Queryable
    /\ op' = Call("iteritems", <<>>, PyNone)
    /\ LET it == iteritems(Self)
       IN  out' = IF it.raised = "StopIteration" THEN Returned("list", it.items)
                  ELSE Raised(it.raised)
    /\ UNCHANGED <<hashfn, pair_size, sink, fp, unordered, puts, finalized, reader>>

\* list(reader.gets(key))
Gets(key) ==
    /\ Queryable
    /\ op' = Call("gets", key, PyNone)
    /\ LET g == gets(Self, key)
       IN  out' = IF g.raised = "StopIteration" THEN Returned("list", g.vals)
                  ELSE Raised(g.raised)
    /\ UNCHANGED <<hashfn, pair_size, sink, fp, unordered, puts, finalized, reader>>

\* reader.get(key, default)
Get(key, default) ==
    /\ Queryable
    /\ op' = Call("get", key, default)
    /\ out' = get(Self, key, default)
    /\ UNCHANGED <<hashfn, pair_size, sink, fp, unordered, puts, finalized, reader>>

\* reader.has_key(key), key in reader
HasKey(key) ==
    /\ Queryable
    /\ op' = Call("has_key", key, PyNone)
    /\ out' = has_key(Self, key)
    /\ UNCHANGED <<hashfn, pair_size, sink, fp, unordered, puts, finalized, reader>>

\* reader[key]
GetItem(key) ==
    /\ Queryable
    /\ op' = Call("getitem", key, PyNone)
    /\ out' = getitem(Self, key)
    /\ UNCHANGED <<hashfn, pair_size, sink, fp, unordered, puts, finalized, reader>>

Next ==
    \/ \E key \in Keys, value \in Values : Put(key, value)
    \/ Finalize
    \/ Open
    \/ LenCall
    \/ IterItems
    \/ \E key \in Keys : Gets(key)
    \/ \E key \in Keys, default \in Defaults : Get(key, default)
    \/ \E key \in Keys : HasKey(key)
    \/ \E key \in Keys : GetItem(key)

Spec == Init /\ [][Next]_vars

----------------------------------------------------------------------------
(* The hash function alone: every short string over a small alphabet, and   *)
(* the test vector "dicttest".                                              *)

HashAlphabet == {97, 98, 99, 100}

RECURSIVE StringsUpTo(_)
StringsUpTo(n) ==
    IF n = 0 THEN {<<>>}
    ELSE LET shorter == StringsUpTo(n - 1)
         IN  shorter \cup {Append(s, c) : s \in shorter, c \in HashAlphabet}

dicttest == <<100, 105, 99, 116, 116, 101, 115, 116>>

HashInputs == StringsUpTo(MaxHashLen) \cup {dicttest}

IdleWriter ==
    /\ hashfn = "djb_hash"
    /\ pair_size = 8
    /\ fp = "None"
    /\ unordered = Writer_unordered
    /\ puts = <<>>
    /\ finalized = FALSE
    /\ reader = NoReader

InitHash ==
    /\ IdleWriter
    /\ sink = [data |-> <<>>, pos |-> 0]
    /\ \E s \in HashInputs : op = Call("py_djb_hash", s, PyNone)
    /\ out = PyNone

\* py_djb_hash(s)
HashCall ==
    /\ op[1] = "py_djb_hash"
    /\ out = PyNone
    /\ out' = Returned("num", py_djb_hash(op[2]))
    /\ UNCHANGED <<hashfn, pair_size, sink, fp, unordered, puts, finalized, reader, op>>

SpecHash == InitHash /\ [][HashCall]_vars

----------------------------------------------------------------------------
(* Reader construction alone, over raw byte sequences of lengths around     *)
(* 256 * pair_size for both classes.                                        *)

RawLens == {0, 8, 2040, 2047, 2048, 2049, 2056, 4088, 4095, 4096, 4097, 4104}

\* n bytes, all zero but the first
RawData(n, b) == [i \in 1..n |-> IF i = 1 THEN b ELSE 0]

InitOpen ==
    /\ IdleWriter
    /\ \E n \in RawLens, b \in 0..MaxFill : sink = [data |-> RawData(n, b), pos |-> 0]
    /\ op = Call("data", <<>>, PyNone)
    /\ out = PyNone

\* Reader(data) or Reader64(data)
OpenAny == \E P \in PairSizes : OpenWith(P)

SpecOpen == InitOpen /\ [][OpenAny]_vars

----------------------------------------------------------------------------
(* What the claims speak of. *)

RECURSIVE ValuesIn(_, _)
\* the values put under key k, in the order of the put calls
ValuesIn(calls, k) ==
    IF calls = <<>> THEN <<>>
    ELSE (IF calls[1][1] = k THEN <<calls[1][2]>> ELSE <<>>) \o ValuesIn(Tail(calls), k)

ValuesPut(k) == ValuesIn(puts, k)
KeyPut(k) == \E i \in 1..Len(puts) : puts[i][1] = k

\* the key's hash as put and gets use it
Hash32(k) == Mask32(Hash(hashfn, k))

\* the last call was `name`, made on a reader over the finalized bytes
FinalCall(name) == finalized /\ reader # NoReader /\ op[1] = name

\* C1 as claimed: for every key that was put, gets(key) on the finalized
\* database yields exactly the values put under the key, in put order.
C1_Original ==
    (FinalCall("gets") /\ KeyPut(op[2]))
        => (out.kind = "list" /\ out.val = ValuesPut(op[2]))

\* C1, amended: for every key that was put and whose hash masked to 32 bits is
\* not 0, gets(key) on the finalized database yields exactly the values put
\* under the key, each once, in put order (whatever else shares its bucket,
\* home slot or hash, keys of hash 0 included).
C1_GetsYieldsValuesPut ==
    (FinalCall("gets") /\ KeyPut(op[2]) /\ Hash32(op[2]) # <<>>)
        => (out.kind = "list" /\ out.val = ValuesPut(op[2]))

\* two different keys of one hash were put; gets of the second, whose slot
\* lies past the wrap of the probe ring, yields its value alone
C1_Witness ==
    /\ FinalCall("gets")
    /\ Len(puts) = 2
    /\ puts[1][1] # puts[2][1]
    /\ Hash32(puts[1][1]) = Hash32(puts[2][1])
    /\ Hash32(puts[1][1]) # <<>>
    /\ op[2] = puts[2][1]
    /\ out.kind = "list" /\ out.val = <<puts[2][2]>>

\* C2: iteritems on the finalized database yields exactly the (key, value)
\* pairs put, one per put call, in put order, and then stops.
C2_IterItemsYieldsPuts ==
    FinalCall("iteritems") => (out.kind = "list" /\ out.val = puts)

\* two records were put, the first with an empty value, and iterated
C2_Witness ==
    /\ FinalCall("iteritems")
    /\ Len(puts) = 2
    /\ puts[1][2] = <<>>
    /\ puts[2][2] # <<>>
    /\ out.kind = "list" /\ Len(out.val) = 2

\* C3: len(reader) on the finalized database is the number of put calls.
C3_LenIsPutCount ==
    FinalCall("len") => (out.kind = "int" /\ out.val = Len(puts))

\* one key was put twice and len is 2
C3_Witness ==
    /\ FinalCall("len")
    /\ Len(puts) = 2
    /\ puts[1][1] = puts[2][1]
    /\ out.kind = "int" /\ out.val = 2

\* C4: on the finalized database a key never put yields nothing from gets
\* and the default from get.
C4_AbsentKey ==
    /\ (FinalCall("gets") /\ ~KeyPut(op[2]))
           => (out.kind = "list" /\ out.val = <<>>)
    /\ (FinalCall("get") /\ ~KeyPut(op[2])) => out = op[3]

\* a key never put has the 32-bit hash of a stored key, and get returns the
\* caller's default
C4_Witness ==
    /\ FinalCall("get")
    /\ ~KeyPut(op[2])
    /\ \E i \in 1..Len(puts) : Hash32(puts[i][1]) = Hash32(op[2])
    /\ Hash32(op[2]) # <<>>
    /\ op[3] = Str(<<100>>)
    /\ out = Str(<<100>>)

\* C5: once finalize has returned, every later finalize or put call raises
\* and leaves the sink as it was.
C5_FinalizeIsTerminal ==
    [][(finalized /\ op'[1] \in {"put", "finalize"})
           => (out' = Raised("AttributeError") /\ sink' = sink /\ puts' = puts)]_vars

\* a put was refused after finalize, with room left for more put calls
C5_Witness ==
    /\ finalized
    /\ op[1] = "put"
    /\ Len(puts) < MaxPuts
    /\ out = Raised("AttributeError")

\* C6 as claimed: for both classes, constructing a reader over fewer than
\* 256 * pair_size bytes raises the IOError 'CDB too small' and makes no reader.
C6_Original ==
    (op[1] = "Reader" /\ Len(sink.data) < NumBuckets * op[3].val)
        => (out.kind = "raise" /\ out.val = "IOError" /\ reader = NoReader)

\* C7 as claimed: py_djb_hash returns 5381 for "", 177670 for "a",
\* 193485963 for "abc" and 1041519795 for "dicttest".
C7_Original ==
    (op[1] = "py_djb_hash" /\ out.kind = "num")
        => /\ (op[2] = <<>> => out.val = Num(5381))
           /\ (op[2] = <<97>> => out.val = Num(177670))
           /\ (op[2] = <<97, 98, 99>> => out.val = Num(193485963))
           /\ (op[2] = dicttest => out.val = Num(1041519795))

\* C7, amended: py_djb_hash (h = 5381, then h = ((h * 33) XOR b) mod 2^32 for
\* each byte) returns 5381 for "", 177604 for "a", 193409669 for "abc" and
\* 1982212809 for "dicttest".
C7_HashVectors ==
    (op[1] = "py_djb_hash" /\ out.kind = "num")
        => /\ (op[2] = <<>> => out.val = Num(5381))
           /\ (op[2] = <<97>> => out.val = Num(177604))
           /\ (op[2] = <<97, 98, 99>> => out.val = Num(193409669))
           /\ (op[2] = dicttest => out.val = Num(1982212809))

\* "dicttest" was hashed
C7_Witness ==
    /\ op[1] = "py_djb_hash"
    /\ op[2] = dicttest
    /\ out.kind = "num" /\ out.val = Num(1982212809)

\* entry i of the index as the sink holds it
IndexEntry(i) ==
    read_pair(pair_size, Slice(sink.data, i * pair_size, i * pair_size + pair_size))

\* the bucket a key was put into
BucketOf(k) == LowByte(Hash32(k))

RECURSIVE RecordBytes(_)
\* the bytes the put calls wrote
RecordBytes(calls) ==
    IF calls = <<>> THEN 0
    ELSE pair_size + Len(calls[1][1]) + Len(calls[1][2]) + RecordBytes(Tail(calls))

\* the offset of the end of the record region
RecordsEnd == NumBuckets * pair_size + RecordBytes(puts)

\* the number of put calls whose key fell into a bucket below i
PutsBelow(i) == Cardinality({n \in 1..Len(puts) : BucketOf(puts[n][1]) < i})

\* finalize has just returned
JustFinalized == finalized /\ op[1] = "finalize" /\ out = PyNone

\* C8 as claimed: in the file finalize produced, the index entry of every
\* bucket that received no record is (0, 0).
C8_Original ==
    JustFinalized
        => \A i \in 0..(NumBuckets - 1) :
               (\A n \in 1..Len(puts) : BucketOf(puts[n][1]) # i)
                   => IndexEntry(i) = <<<<>>, <<>>>>

\* C8, amended: in the file finalize produced, the index entry of every bucket
\* that received no record has slot count 0 and, as table offset, the offset
\* the sink had reached when finalize came to the bucket: the end of the
\* record region plus the size of the tables of the buckets before it.
C8_EmptyBucketEntry ==
    JustFinalized
        => \A i \in 0..(NumBuckets - 1) :
               (\A n \in 1..Len(puts) : BucketOf(puts[n][1]) # i)
                   => IndexEntry(i) =
                          <<Num(RecordsEnd + 2 * PutsBelow(i) * pair_size), <<>>>>

\* two records went to buckets other than the first and the last, whose
\* entries hold the end of the record region and the end of the file
C8_Witness ==
    /\ JustFinalized
    /\ Len(puts) = 2
    /\ PutsBelow(0) = 0 /\ PutsBelow(NumBuckets - 1) = 2
    /\ IndexEntry(0) = <<Num(RecordsEnd), <<>>>>
    /\ IndexEntry(NumBuckets - 1) = <<Num(Len(sink.data)), <<>>>>
    /\ Len(sink.data) > RecordsEnd

\* C9: until finalize has returned, the first 256 * pair_size bytes of the
\* sink are zero, and a reader over the sink's bytes has length 0, iterates
\* over nothing and finds no value under any key.
C9_UnfinalizedIsEmpty ==
    ~finalized
        => /\ Len(sink.data) >= NumBuckets * pair_size
           /\ SubSeq(sink.data, 1, NumBuckets * pair_size) = Zeros(NumBuckets * pair_size)
           /\ (op[1] = "Reader" => out.kind = "Reader")
           /\ (op[1] = "len" => (out.kind = "int" /\ out.val = 0))
           /\ (op[1] \in {"iteritems", "gets"} => (out.kind = "list" /\ out.val = <<>>))

\* two records were put, finalize was not called, and gets of a key that was
\* put yields nothing
C9_Witness ==
    /\ ~finalized
    /\ Len(puts) = 2
    /\ op[1] = "gets"
    /\ KeyPut(op[2])
    /\ out.kind = "list" /\ out.val = <<>>

\* the first value put under key k is the empty string
FirstValueEmpty(k) == KeyPut(k) /\ ValuesPut(k)[1] = <<>>

\* what C10 says of a key never put
C10_AbsentKey ==
    /\ (FinalCall("has_key") /\ ~KeyPut(op[2]))
           => (out.kind = "bool" /\ out.val = FALSE)
    /\ (FinalCall("getitem") /\ ~KeyPut(op[2]))
           => (out.kind = "raise" /\ out.val = "KeyError")

\* what C10 says of the key k when its first value is empty
C10_Present(k) ==
    /\ (FinalCall("get") /\ op[2] = k /\ op[3] = PyNone)
           => (out.kind = "str" /\ out.val = <<>>)
    /\ (FinalCall("has_key") /\ op[2] = k)
           => (out.kind = "bool" /\ out.val = TRUE)
    /\ (FinalCall("getitem") /\ op[2] = k)
           => (out.kind = "str" /\ out.val = <<>>)

\* C10 as claimed: on the finalized database a key put with the empty value
\* is present (get returns "", has_key is true, reader[key] returns), and a
\* key never put is absent (has_key is false, reader[key] raises KeyError).
C10_Original ==
    /\ \A k \in Keys : FirstValueEmpty(k) => C10_Present(k)
    /\ C10_AbsentKey

\* C10, amended: on the finalized database a key whose hash masked to 32 bits
\* is not 0 and whose first value put is the empty string is present (get
\* returns "" and not None, has_key is true, reader[key] returns ""), and a
\* key never put is absent (has_key is false, reader[key] raises KeyError).
C10_PresenceByRecord ==
    /\ \A k \in Keys : (FirstValueEmpty(k) /\ Hash32(k) # <<>>) => C10_Present(k)
    /\ C10_AbsentKey

\* a key was put with the empty value alone and has_key is true
C10_Witness ==
    /\ FinalCall("has_key")
    /\ ValuesPut(op[2]) = <<<<>>>>
    /\ out.kind = "bool" /\ out.val = TRUE

----------------------------------------------------------------------------
(* Writer64 and Reader64: the same state machine, started from a Writer64.  *)

Init64 == NewWriter(16)

Spec64 == Init64 /\ [][Next]_vars

RECURSIVE put_all(_, _, _, _)
\* the put calls of `calls` made in order on the writer w = [sink, unordered]
put_all(P, fn, w, calls) ==
    IF calls = <<>> THEN w
    ELSE put_all(P, fn, put(P, fn, w.sink, w.unordered, calls[1][1], calls[1][2]),
                 Tail(calls))

\* the bytes of the sink after a writer of pair size P was constructed, made
\* the put calls of `calls` and was finalized
Built(P, fn, calls) ==
    LET w == put_all(P, fn, [sink |-> Writer_sink(P), unordered |-> Writer_unordered],
                     calls)
    IN  finalize(P, w.sink, w.unordered).data

\* the reader of pair size P over data, its reference to the data followed
ReaderOver(P, data, fn) ==
    LET r == Reader_init(P, data, fn)
    IN  IF r.kind = "Reader" THEN [r EXCEPT !.data = data] ELSE r

\* what list(r.gets(key)) shows its caller
GetsSeen(r, key) ==
    LET g == gets(r, key)
    IN  IF g.raised = "StopIteration" THEN Returned("list", g.vals) ELSE Raised(g.raised)

\* what list(r.iteritems()) shows its caller
ItemsSeen(r) ==
    LET it == iteritems(r)
    IN  IF it.raised = "StopIteration" THEN Returned("list", it.items)
        ELSE Raised(it.raised)

\* everything a user of the reader r can see
Visible(r) ==
    [len   |-> r.length,
     items |-> ItemsSeen(r),
     gets  |-> [k \in Keys |-> GetsSeen(r, k)],
     get   |-> [k \in Keys |-> [d \in Defaults |-> get(r, k, d)]]]

\* the two readers are both objects and show the same
SameVisible(r64, r32) ==
    /\ r64.kind = "Reader"
    /\ r32.kind = "Reader"
    /\ Visible(r64) = Visible(r32)

\* C11: once a Writer64 was finalized and a Reader64 opened over its bytes,
\* len, the iteritems sequence and gets(k) and get(k, default) for every key
\* are those of a Reader over the bytes a Writer builds from the same put
\* calls with the same hash function.
C11_FormatLocality ==
    (finalized /\ op[1] = "Reader" /\ pair_size = 16)
        => /\ out.kind = "Reader"
           /\ SameVisible(Self, ReaderOver(8, Built(8, hashfn, puts), hashfn))

\* a Reader64 was opened over two records of one bucket, and counts both
C11_Witness ==
    /\ finalized /\ op[1] = "Reader" /\ pair_size = 16
    /\ out.kind = "Reader"
    /\ Len(puts) = 2
    /\ puts[1][1] # puts[2][1]
    /\ BucketOf(puts[1][1]) = BucketOf(puts[2][1])
    /\ reader.length = 2

----------------------------------------------------------------------------
(* The slot tables as the sink holds them after finalize. *)

\* the offset at which the n-th put call wrote its record
RecordOffset(n) == NumBuckets * pair_size + RecordBytes(SubSeq(puts, 1, n - 1))

\* the slot count of bucket i in the index
NSlots(i) == ToInt(IndexEntry(i)[2])

\* the table offset of bucket i in the index
TableOffset(i) == ToInt(IndexEntry(i)[1])

\* slot k (from 0) of the table of bucket i
TableSlot(i, k) ==
    read_pair(pair_size, Slice(sink.data, TableOffset(i) + k * pair_size,
                               TableOffset(i) + (k + 1) * pair_size))

\* a slot is empty iff both its hash and its record offset are 0
SlotEmpty(slot) == slot = <<<<>>, <<>>>>

\* the slot the n-th put call's record should be stored as
SlotOf(n) == <<Hash32(puts[n][1]), Num(RecordOffset(n))>>

\* the record of the n-th put call sits in a slot of its bucket's table that
\* the probe from its home slot comes to before any empty slot
Reachable(n) ==
    LET h      == Hash32(puts[n][1])
        i      == LowByte(h)
        nslots == NSlots(i)
    IN  /\ nslots > 0
        /\ \E j \in 0..(nslots - 1) :
               /\ TableSlot(i, (Shr8(h) + j) % nslots) = SlotOf(n)
               /\ \A j2 \in 0..(j - 1) :
                      ~SlotEmpty(TableSlot(i, (Shr8(h) + j2) % nslots))

\* C12 as claimed: after finalize, for any hash function, every record that
\* was put occupies a slot of its bucket's table and is reachable from its
\* home slot by probing forward with wrap-around without crossing an empty
\* slot; finalize never overwrites a slot that holds a record.
C12_Original ==
    JustFinalized => \A n \in 1..Len(puts) : Reachable(n)

\* the bytes finalize wrote are in the sink and no query has been made yet
TablesWritten == finalized /\ op[1] \in {"finalize", "Reader"}

\* C13: after finalize the 256 slot tables lie back to back in bucket order
\* directly after the last record (the first table starts where the record
\* region ends, each next table where the one before it ends, the last one
\* ends the file), so the least table offset of the index is the end of the
\* record region; the reader's table_start is that value.
C13_TablesContiguous ==
    /\ TablesWritten
           => /\ TableOffset(0) = RecordsEnd
              /\ \A i \in 0..(NumBuckets - 2) :
                     TableOffset(i + 1) = TableOffset(i) + NSlots(i) * pair_size
              /\ \A i \in 0..(NumBuckets - 1) : TableOffset(i) >= RecordsEnd
              /\ TableOffset(NumBuckets - 1) + NSlots(NumBuckets - 1) * pair_size
                     = Len(sink.data)
    /\ (FinalCall("Reader") /\ out.kind = "Reader")
           => reader.table_start = RecordsEnd

\* a reader was opened over two records of two buckets: its table_start is
\* the end of the record region, and the last table starts four slots later
C13_Witness ==
    /\ FinalCall("Reader")
    /\ out.kind = "Reader"
    /\ Len(puts) = 2
    /\ BucketOf(puts[1][1]) # BucketOf(puts[2][1])
    /\ reader.table_start = RecordsEnd
    /\ TableOffset(NumBuckets - 1) = RecordsEnd + 4 * pair_size

\* the number of put calls whose key fell into bucket i
BucketSize(i) == Cardinality({n \in 1..Len(puts) : BucketOf(puts[n][1]) = i})

\* where the bytes written for the table of bucket i end
TableEnd(i) == IF i = NumBuckets - 1 THEN Len(sink.data) ELSE TableOffset(i + 1)

\* the number of empty slots in the table of bucket i
EmptySlots(i) == Cardinality({k \in 0..(NSlots(i) - 1) : SlotEmpty(TableSlot(i, k))})

\* C14: after finalize, for every bucket the slot count in the index and the
\* number of slots written to the sink are both twice the number of records
\* put into the bucket, and at least half of the slots are the pair (0, 0).
C14_LoadFactor ==
    JustFinalized
        => \A i \in 0..(NumBuckets - 1) :
               /\ NSlots(i) = 2 * BucketSize(i)
               /\ TableEnd(i) - TableOffset(i) = 2 * BucketSize(i) * pair_size
               /\ 2 * EmptySlots(i) >= NSlots(i)

\* two records of different keys went to one bucket, whose table has four
\* slots of which exactly two are empty
C14_Witness ==
    /\ JustFinalized
    /\ Len(puts) = 2
    /\ puts[1][1] # puts[2][1]
    /\ BucketOf(puts[1][1]) = BucketOf(puts[2][1])
    /\ NSlots(BucketOf(puts[1][1])) = 4
    /\ EmptySlots(BucketOf(puts[1][1])) = 2

\* the n-th put call wrote, at its offset inside the record region, the
\* header of its record
HeaderWritten(n) ==
    /\ RecordOffset(n) >= NumBuckets * pair_size
    /\ RecordOffset(n) + pair_size <= RecordsEnd
    /\ read_pair(pair_size, Slice(sink.data, RecordOffset(n), RecordOffset(n) + pair_size))
           = <<Num(Len(puts[n][1])), Num(Len(puts[n][2]))>>

\* the least significant byte of the hash field of a slot
SlotBucket(slot) == IF slot[1] = <<>> THEN 0 ELSE slot[1][1]

\* C15: after finalize every non-empty slot (h, rec_off) of the table of
\* bucket i has h & 0xff = i, and rec_off is the offset, inside the record
\* region, of the header of a record some put call wrote for a key whose
\* hash is h.
C15_BucketByte ==
    JustFinalized
        => \A i \in 0..(NumBuckets - 1) :
               \A k \in 0..(NSlots(i) - 1) :
                   ~SlotEmpty(TableSlot(i, k))
                       => /\ SlotBucket(TableSlot(i, k)) = i
                          /\ \E n \in 1..Len(puts) :
                                 /\ TableSlot(i, k) = SlotOf(n)
                                 /\ HeaderWritten(n)

\* two records of different hashes went to one bucket other than bucket 0,
\* and both are in its table
C15_Witness ==
    /\ JustFinalized
    /\ Len(puts) = 2
    /\ Hash32(puts[1][1]) # Hash32(puts[2][1])
    /\ BucketOf(puts[1][1]) = BucketOf(puts[2][1])
    /\ BucketOf(puts[1][1]) # 0
    /\ \A n \in 1..2 :
           \E k \in 0..3 : TableSlot(BucketOf(puts[1][1]), k) = SlotOf(n)

----------------------------------------------------------------------------
(* The slots a lookup reads. *)

\* the position of the j-th slot (from 0) of the probe ring of hash h: the
\* ring of the table of bucket h & 0xff, rotated so that the home slot is first
RingPos(h, j) ==
    TableOffset(SlotBucket(<<h, 0>>))
        + ((Shr8(h) + j) % NSlots(SlotBucket(<<h, 0>>))) * pair_size

\* the hash field of the slot at position pos of the sink
HashAt(pos) == read_pair(pair_size, Slice(sink.data, pos, pos + pair_size))[1]

\* the number of slots of the ring of hash h up to and including the first
\* one whose hash field is 0 (all of them when there is none)
RingUntilZero(h) ==
    LET nslots == NSlots(SlotBucket(<<h, 0>>))
        zeros  == {j \in 0..(nslots - 1) : HashAt(RingPos(h, j)) = <<>>}
    IN  IF nslots = 0 THEN 0
        ELSE IF zeros = {} THEN nslots
        ELSE 1 + (CHOOSE j \in zeros : \A x \in zeros : j <= x)

\* the generator g of gets for hash h ended, having read the slots of the
\* ring of h in ring order from the home slot up to the first slot whose
\* hash field is 0, and no other
ReadTheRing(g, h) ==
    /\ g.raised = "StopIteration"
    /\ Len(g.reads) = RingUntilZero(h)
    /\ Len(g.reads) <= NSlots(SlotBucket(<<h, 0>>))
    /\ \A j \in 1..Len(g.reads) : g.reads[j] = RingPos(h, j - 1)

\* C16: every gets(key) call on a finalized database ends; it reads only
\* slots of the table of bucket hash(key) & 0xff, in ring order from the home
\* slot, each at most once, and stops at the first slot whose hash field is 0.
C16_GetsReadsTheRing ==
    FinalCall("gets")
        => /\ out.kind = "list"
           /\ out.val = gets(Self, op[2]).vals
           /\ ReadTheRing(gets(Self, op[2]), Hash32(op[2]))

\* gets of a key that was put read three slots: its home slot at the end of
\* the table, then the first slots of the table up to an empty one
C16_Witness ==
    /\ FinalCall("gets")
    /\ KeyPut(op[2])
    /\ Len(gets(Self, op[2]).reads) = 3
    /\ gets(Self, op[2]).reads[2] < gets(Self, op[2]).reads[1]
    /\ out.kind = "list" /\ Len(out.val) = 1

----------------------------------------------------------------------------
(* The placement finalize makes. *)

\* the slot list finalize starts the placement of a bucket list from
FreshSlots(tbl) == [k \in 1..(2 * Len(tbl)) |-> EmptySlot]

\* the j-th slot (from 0) finalize's scan for pair comes to, in a list of
\* `length` slots
ScanSlot(length, pair, j) == (Shr8(pair[1]) + j) % length

\* the scan for pair over the slot list `before` came, after slots it did not
\* treat as free, to a slot it treated as free, and `after` is `before` with
\* pair stored in that slot
StoredByScan(before, after, pair) ==
    \E j \in 0..(Len(before) - 1) :
        /\ slot_free(before[ScanSlot(Len(before), pair, j) + 1])
        /\ \A j2 \in 0..(j - 1) :
               ~slot_free(before[ScanSlot(Len(before), pair, j2) + 1])
        /\ after = [before EXCEPT ![ScanSlot(Len(before), pair, j) + 1] = pair]

\* the table of bucket i in the sink is the slot list `ordered`
TableIs(i, ordered) ==
    /\ NSlots(i) = Len(ordered)
    /\ \A k \in 1..Len(ordered) :
           TableSlot(i, k - 1) = <<ordered[k][1], Num(ordered[k][2])>>

\* C17: in finalize, for every (hash, offset) entry of every bucket list the
\* placement scan from the home slot around the ring finds a slot it treats
\* as free and stores the entry there (none falls through the scan), and the
\* slot list so built is the table written.
C17_PlacementStores ==
    JustFinalized
        => \A i \in 0..(NumBuckets - 1) :
               /\ \A m \in 1..Len(unordered[i]) :
                      StoredByScan(
                          place_all(FreshSlots(unordered[i]),
                                    SubSeq(unordered[i], 1, m - 1)),
                          place_all(FreshSlots(unordered[i]),
                                    SubSeq(unordered[i], 1, m)),
                          unordered[i][m])
               /\ TableIs(i, place_all(FreshSlots(unordered[i]), unordered[i]))

\* two records of one non-zero hash whose home slot is the last of the four:
\* the first was stored there, the second after the wrap in the first slot
C17_Witness ==
    /\ JustFinalized
    /\ Len(puts) = 2
    /\ Hash32(puts[1][1]) = Hash32(puts[2][1])
    /\ Hash32(puts[1][1]) # <<>>
    /\ TableSlot(BucketOf(puts[1][1]), 3) = SlotOf(1)
    /\ TableSlot(BucketOf(puts[1][1]), 0) = SlotOf(2)

----------------------------------------------------------------------------
(* Lookups of keys of hash 0, and the slots get reads. *)

\* some put call had a key whose hash masked to 32 bits is 0
ZeroHashPut == \E n \in 1..Len(puts) : Hash32(puts[n][1]) = <<>>

\* C18: a key whose hash masked to 32 bits is 0, once put and finalized, is
\* not found (gets yields nothing, get returns its default), while its
\* records are counted by len and yielded by iteritems.
C18_ZeroHashUnfindable ==
    /\ (FinalCall("gets") /\ KeyPut(op[2]) /\ Hash32(op[2]) = <<>>)
           => (out.kind = "list" /\ out.val = <<>>)
    /\ (FinalCall("get") /\ KeyPut(op[2]) /\ Hash32(op[2]) = <<>>)
           => out = op[3]
    /\ (FinalCall("len") /\ ZeroHashPut)
           => (out.kind = "int" /\ out.val = Len(puts))
    /\ (FinalCall("iteritems") /\ ZeroHashPut)
           => (out.kind = "list" /\ out.val = puts)

\* a key of hash 0 was put, alone, and get returns the caller's default
C18_Witness ==
    /\ FinalCall("get")
    /\ Len(puts) = 1
    /\ op[2] = puts[1][1]
    /\ Hash32(op[2]) = <<>>
    /\ op[3] = Str(<<100>>)
    /\ out = Str(<<100>>)

\* the slot at position pos of the sink is the slot of a record put under key
RecordSlotOf(pos, key) ==
    \E n \in 1..Len(puts) :
        /\ puts[n][1] = key
        /\ read_pair(pair_size, Slice(sink.data, pos, pos + pair_size)) = SlotOf(n)

\* the value of the record whose slot is at position pos of the sink
ValueAtSlot(pos) ==
    LET n == CHOOSE n \in 1..Len(puts) :
                 read_pair(pair_size, Slice(sink.data, pos, pos + pair_size)) = SlotOf(n)
    IN  puts[n][2]

\* g1, the generator of gets(key) as get pulled it, against g, the generator
\* run to its end: g1 yielded the first value of g and was left suspended
\* there, having read the slots g read up to the first slot of a record of
\* key and none after it
StoppedAtFirstMatch(g1, g, key) ==
    /\ g1.raised = "suspended"
    /\ g1.vals = <<g.vals[1]>>
    /\ Len(g1.reads) < Len(g.reads)
    /\ g1.reads = SubSeq(g.reads, 1, Len(g1.reads))
    /\ RecordSlotOf(g1.reads[Len(g1.reads)], key)
    /\ \A j \in 1..(Len(g1.reads) - 1) : ~RecordSlotOf(g1.reads[j], key)
    /\ g1.vals[1] = ValueAtSlot(g1.reads[Len(g1.reads)])

\* C19: when the key has a matching record, get(key, default) returns the
\* value of the first matching record of the probe ring and reads no slot
\* after the slot of that record.
C19_GetStopsAtFirstMatch ==
    (FinalCall("get") /\ gets(Self, op[2]).vals # <<>>)
        => /\ out = Str(gets(Self, op[2]).vals[1])
           /\ StoppedAtFirstMatch(gets_upto(Self, op[2], 1), gets(Self, op[2]), op[2])

\* a key was put twice with different values: get returned the first value
\* after reading one slot, where gets reads three
C19_Witness ==
    /\ FinalCall("get")
    /\ Len(puts) = 2
    /\ puts[1][1] = op[2] /\ puts[2][1] = op[2]
    /\ puts[1][2] # puts[2][2]
    /\ out = Str(puts[1][2])
    /\ Len(gets_upto(Self, op[2], 1).reads) = 1
    /\ Len(gets(Self, op[2]).reads) = 3

====
